---- MODULE Spec2Model ----
(***************************************************************************)
(* A model of the markdown-backend document service: the documents and     *)
(* users tables, the document routes that write them, and the              *)
(* search_documents route with its highlight and preview generators.       *)
(*                                                                         *)
(* Text is a sequence of one-character strings.  A column or attribute     *)
(* that holds no value (SQL NULL, Python None) is the value None.          *)
(* Timestamps are positive integers read from a clock that never goes      *)
(* back; a timestamp column that holds no value is NoTime.                 *)
(***************************************************************************)
EXTENDS Integers, Sequences, FiniteSets, TLC

VARIABLES
    documents,   \* the documents table: row i has id i
    users,       \* the users table: row i has id i, or is gone (NoUser)
    clock,       \* the latest value datetime.now() has returned
    fulltext,    \* whether the store has a FULLTEXT index on the documents
    pc,          \* where the search request in flight stands
    request,     \* the query parameters of the search request in flight
    fetched,     \* what the queries of the search in flight have returned
    response,    \* the response of the search request
    observed,    \* what the search's queries read, kept for the properties
    categories,  \* the categories table: row i has id i
    inflight,    \* per worker, the request that has read and not yet committed
    reply,       \* the reply of the last request of a route other than search
    call,        \* a call of a generator: its arguments and what it returned
    walk         \* a client's walk through the pages of one search

vars == <<documents, users, clock, fulltext, pc, request, fetched, response, observed,
          categories, inflight, reply, call, walk>>

-----------------------------------------------------------------------------
(* Bounds of the model.                                                    *)

MaxDocs == 2
MaxClock == 2
MaxPage == 2
MaxPerPage == 2
MaxWorkers == 2
MaxUsers == 3
MaxCategories == 1

-----------------------------------------------------------------------------
(* Values.                                                                 *)

None == <<"None">>
NoTime == 0

IsNone(v) == v = None

\* Python truthiness of an Optional[str]: None and "" are false.
Truthy(text) == ~IsNone(text) /\ Len(text) > 0

Uppers == <<"A","B","C","D","E","F","G","H","I","J","K","L","M",
            "N","O","P","Q","R","S","T","U","V","W","X","Y","Z">>
Lowers == <<"a","b","c","d","e","f","g","h","i","j","k","l","m",
            "n","o","p","q","r","s","t","u","v","w","x","y","z">>

LowerMap == [c \in {Uppers[i] : i \in 1..26} |->
                Lowers[CHOOSE i \in 1..26 : Uppers[i] = c]]

LowerChar(c) == IF c \in DOMAIN LowerMap THEN LowerMap[c] ELSE c

\* str.lower()
lower(text) == [i \in 1..Len(text) |-> LowerChar(text[i])]

\* text[a:b] of Python, for 0 <= a and b <= len(text)
Slice(text, a, b) == SubSeq(text, a + 1, b)

\* `term in text` of Python
In(term, text) ==
    \E i \in 0..(Len(text) - Len(term)) : Slice(text, i, i + Len(term)) = term

\* text.find(term) of Python: the first index, or -1
find(text, term) ==
    IF In(term, text)
    THEN CHOOSE i \in 0..(Len(text) - Len(term)) :
            /\ Slice(text, i, i + Len(term)) = term
            /\ \A j \in 0..(i - 1) : Slice(text, j, j + Len(term)) # term
    ELSE -1

Max(a, b) == IF a >= b THEN a ELSE b
Min(a, b) == IF a <= b THEN a ELSE b

Digits == <<"0","1","2","3","4","5","6","7","8","9">>

RECURSIVE str(_)
\* str(n) of Python for n >= 0
str(n) == IF n < 10 THEN <<Digits[n + 1]>>
          ELSE str(n \div 10) \o <<Digits[(n % 10) + 1]>>

-----------------------------------------------------------------------------
(* The store's LIKE, which Column.contains(keyword) compiles to:           *)
(*     column LIKE concat('%', keyword, '%')                               *)
(* '%' in the pattern stands for any run of characters and '_' for any one *)
(* character; contains() escapes neither in the keyword.  The outcome is   *)
(* SQL's three-valued: NULL when the column is NULL.  Characters compare   *)
(* as they are written, which is a binary collation of the columns; no     *)
(* keyword here holds the escape character of LIKE.                        *)

SqlTrue == "TRUE"
SqlFalse == "FALSE"
SqlNull == "NULL"

RECURSIVE Like(_, _)
Like(text, pattern) ==
    IF pattern = <<>> THEN text = <<>>
    ELSE IF Head(pattern) = "%"
         THEN Like(text, Tail(pattern)) \/ (text # <<>> /\ Like(Tail(text), pattern))
         ELSE /\ text # <<>>
              /\ (Head(pattern) = "_" \/ Head(pattern) = Head(text))
              /\ Like(Tail(text), Tail(pattern))

contains(column, keyword) ==
    IF IsNone(column) THEN SqlNull
    ELSE IF Like(column, <<"%">> \o keyword \o <<"%">>) THEN SqlTrue ELSE SqlFalse

SqlOr(a, b) ==
    IF a = SqlTrue \/ b = SqlTrue THEN SqlTrue
    ELSE IF a = SqlNull \/ b = SqlNull THEN SqlNull ELSE SqlFalse

SqlNot(a) == IF a = SqlTrue THEN SqlFalse ELSE IF a = SqlFalse THEN SqlTrue ELSE SqlNull

\* The place of a boolean sort key under ORDER BY ... ASC: the store puts
\* NULL before 0 (false) and 0 before 1 (true).
AscRank(a) == IF a = SqlNull THEN 0 ELSE IF a = SqlFalse THEN 1 ELSE 2

-----------------------------------------------------------------------------
(* Slugs.                                                                  *)

\* title.lower().replace(' ', '-').replace('_', '-')
base_slug_of(title) ==
    [i \in 1..Len(title) |->
        IF LowerChar(title[i]) \in {" ", "_"} THEN "-" ELSE LowerChar(title[i])]

RECURSIVE FreeSlug(_, _, _)
\* The while loop: base, base-1, base-2, ... until no row in `rows` has it.
FreeSlug(base, counter, taken) ==
    LET candidate == IF counter = 0 THEN base ELSE base \o <<"-">> \o str(counter)
    IN IF candidate \in taken THEN FreeSlug(base, counter + 1, taken) ELSE candidate

unique_slug_of(title, rows) ==
    FreeSlug(base_slug_of(title), 0, {documents[i].slug : i \in rows})

-----------------------------------------------------------------------------
(* The documents and users tables and the routes that write them.          *)

Ids == DOMAIN documents

Titles == { <<"a">>, <<"A">> }
Excerpts == { None, <<"a">>, <<"A">> }
Contents == { None, <<"a">>, <<"<", "a", ">">> }

DefaultUser == [username |-> "default_user", is_admin |-> FALSE]

HasUser(name) == \E u \in DOMAIN users : users[u].username = name

\* The place of a row that was deleted: the store gives its id to no other row.
NoUser == [username |-> "none", is_admin |-> FALSE]

\* The ids of the rows of the users table.
UserIds == {u \in DOMAIN users : users[u] # NoUser}

\* A lookup that leaves the deleted_at filter out.
LiveOrDeleted(id) == id \in Ids

\* The rows a route's lookup by id finds: deleted_at IS NULL.
Live(id) == id \in Ids /\ documents[id].deleted_at = NoTime

\* POST /documents with no slug given.  content_text is the column the
\* store generates from the content the request carries.
create_document(title, excerpt, content_text, now) ==
    /\ pc # "done"
    /\ Len(documents) < MaxDocs
    /\ LET users1 == IF HasUser("default_user") THEN users
                     ELSE Append(users, DefaultUser)
           owner == CHOOSE u \in DOMAIN users1 : users1[u].username = "default_user"
       IN /\ users' = users1
          /\ documents' = Append(documents,
                [id |-> Len(documents) + 1,
                 user_id |-> owner,
                 title |-> title,
                 excerpt |-> excerpt,
                 content_text |-> content_text,
                 slug |-> unique_slug_of(title, Ids),
                 status |-> 0,
                 is_pinned |-> FALSE,
                 updated_at |-> now,
                 deleted_at |-> NoTime])
    /\ clock' = now
    /\ UNCHANGED <<fulltext, pc, request, fetched, response, observed>>
    /\ UNCHANGED <<categories, inflight, call, walk>>

\* PUT /documents/{id} with one of title, excerpt, content, status and
\* is_pinned set.
update_document(id, field, value, now) ==
    /\ pc # "done"
    /\ Live(id)
    /\ documents' = [documents EXCEPT ![id] =
          [(IF field = "title"
            THEN [@ EXCEPT !.title = value,
                           !.slug = unique_slug_of(value, Ids \ {id})]
            ELSE IF field = "excerpt" THEN [@ EXCEPT !.excerpt = value]
            ELSE IF field = "status" THEN [@ EXCEPT !.status = value]
            ELSE IF field = "is_pinned" THEN [@ EXCEPT !.is_pinned = value]
            ELSE [@ EXCEPT !.content_text = value])
           EXCEPT !.updated_at = now]]
    /\ clock' = now
    /\ UNCHANGED <<users, fulltext, pc, request, fetched, response, observed>>
    /\ UNCHANGED <<categories, inflight, call, walk>>

\* DELETE /documents/{id}: the soft delete.
delete_document(id, now) ==
    /\ pc # "done"
    /\ Live(id)
    /\ documents' = [documents EXCEPT ![id].deleted_at = now, ![id].updated_at = now]
    /\ clock' = now
    /\ UNCHANGED <<users, fulltext, pc, request, fetched, response, observed>>
    /\ UNCHANGED <<categories, inflight, call, walk>>

-----------------------------------------------------------------------------
(* Highlights and previews of a search result.                             *)

HighlightWindow == 50
PreviewWindow == 50
PreviewLength == 200
TitleLength == 100
ExcerptLength == 200
ContentLength == 300

Ellipsis == <<".", ".", ".">>
MarkOpen == <<"<", "m", "a", "r", "k", ">">>
MarkClose == <<"<", "/", "m", "a", "r", "k", ">">>

\* text[:max_length] + "..." if len(text) > max_length else text
Truncated(text, max_length) ==
    IF Len(text) > max_length THEN Slice(text, 0, max_length) \o Ellipsis ELSE text

RECURSIVE MarkAll(_, _)
\* pattern.sub('<mark>\g<0></mark>', snippet) for the pattern
\* re.compile(re.escape(term), re.IGNORECASE): every occurrence, left to
\* right, none overlapping the one before.  The term is not empty.
MarkAll(snippet, term) ==
    LET at == find(lower(snippet), lower(term))
    IN IF at = -1 THEN snippet
       ELSE Slice(snippet, 0, at)
              \o MarkOpen \o Slice(snippet, at, at + Len(term)) \o MarkClose
              \o MarkAll(Slice(snippet, at + Len(term), Len(snippet)), term)

highlight_text(text, term, max_length) ==
    IF ~Truthy(text) \/ term = <<>> THEN text
    ELSE LET at == find(lower(text), lower(term))
         IN IF at = -1 THEN Truncated(text, max_length)
            ELSE LET start == Max(0, at - HighlightWindow)
                     end == Min(Len(text), at + Len(term) + HighlightWindow)
                     snippet == (IF start > 0 THEN Ellipsis ELSE <<>>)
                                  \o Slice(text, start, end)
                                  \o (IF end < Len(text) THEN Ellipsis ELSE <<>>)
                 IN MarkAll(snippet, term)

TriggersInCase(field, search_term) == Truthy(field) /\ In(search_term, field)

\* The guard of each field: document.f and search_term.lower() in document.f.lower()
Triggers(field, search_term) == Truthy(field) /\ In(lower(search_term), lower(field))

\* SearchHighlight(), its three fields None until set.
generate_highlights(document, search_term) ==
    [given |-> TRUE,
     title |-> IF Triggers(document.title, search_term)
               THEN highlight_text(document.title, search_term, TitleLength)
               ELSE None,
     excerpt |-> IF Triggers(document.excerpt, search_term)
                 THEN highlight_text(document.excerpt, search_term, ExcerptLength)
                 ELSE None,
     content_preview |-> IF Triggers(document.content_text, search_term)
                         THEN highlight_text(document.content_text, search_term,
                                             ContentLength)
                         ELSE None]

\* A Document() with none of its text attributes set.
NoDocument == [title |-> None, excerpt |-> None, content_text |-> None]

\* highlights=None of a result built with highlight=False
NoHighlights == [given |-> FALSE, title |-> None, excerpt |-> None,
                 content_preview |-> None]

RECURSIVE StripTags(_)
\* re.sub(r'<[^>]+>', '', text): a '<', one or more characters other than
\* '>', and the '>' that follows them.
StripTags(text) ==
    LET Closes(i, j) == /\ text[j] = ">"
                        /\ \A k \in (i + 1)..(j - 1) : text[k] # ">"
        opens == {i \in 1..Len(text) :
                     text[i] = "<" /\ \E j \in (i + 2)..Len(text) : Closes(i, j)}
    IN IF opens = {} THEN text
       ELSE LET open == CHOOSE i \in opens : \A o \in opens : i <= o
                close == CHOOSE j \in (open + 2)..Len(text) : Closes(open, j)
            IN Slice(text, 0, open - 1) \o StripTags(Slice(text, close, Len(text)))

\* A preview cut from the start of the text, wherever the keyword is.
PreviewFromStart(content_text, search_term, max_length) ==
    IF ~Truthy(content_text) THEN <<>>
    ELSE Truncated(StripTags(content_text), max_length)

PreviewOfMatchOnly(content_text, search_term, max_length) ==
    IF ~Truthy(content_text) \/ find(lower(StripTags(content_text)), lower(search_term)) = -1
    THEN <<>>
    ELSE StripTags(content_text)

generate_content_preview(content_text, search_term, max_length) ==
    IF ~Truthy(content_text) THEN <<>>
    ELSE LET clean_text == StripTags(content_text)
             term_pos == find(lower(clean_text), lower(search_term))
         IN IF search_term = <<>> \/ term_pos = -1
            THEN Truncated(clean_text, max_length)
            ELSE LET start == Max(0, term_pos - PreviewWindow)
                     end == Min(Len(clean_text),
                                term_pos + Len(search_term) + PreviewWindow)
                 IN (IF start > 0 THEN Ellipsis ELSE <<>>)
                      \o Slice(clean_text, start, end)
                      \o (IF end < Len(clean_text) THEN Ellipsis ELSE <<>>)

-----------------------------------------------------------------------------
(* GET /documents/search.                                                  *)

Keywords == { <<"a">>, <<"_">> }
Modes == {"basic", "fulltext"}

NoScore == -1

DeletedToo(row) == TRUE

\* WHERE deleted_at IS NULL
NotDeleted(row) == row.deleted_at = NoTime

\* search_filter: title, excerpt or content_text contains the keyword.
search_filter(row, keyword) ==
    SqlOr(SqlOr(contains(row.title, keyword), contains(row.excerpt, keyword)),
          contains(row.content_text, keyword))

\* The WHERE clause of the basic query, which selects the rows it is TRUE of.
BasicWhere(row, keyword) == NotDeleted(row) /\ search_filter(row, keyword) = SqlTrue

\* The ORDER BY of the basic query, as a key that sorts ascending.
BasicOrder(row, keyword) ==
    << AscRank(SqlNot(contains(row.title, keyword))),
       AscRank(SqlNot(contains(row.excerpt, keyword))),
       0 - row.updated_at >>

\* MATCH(title, excerpt, content_text) AGAINST(:search_term IN NATURAL
\* LANGUAGE MODE): the score is the store's.  Here it is the number of the
\* three columns the term occurs in, letter case apart; a NULL column has
\* no occurrence.
Occurs(column, term) == ~IsNone(column) /\ In(lower(term), lower(column))

MatchAgainst(row, term) ==
    (IF Occurs(row.title, term) THEN 1 ELSE 0)
    + (IF Occurs(row.excerpt, term) THEN 1 ELSE 0)
    + (IF Occurs(row.content_text, term) THEN 1 ELSE 0)

FulltextWhere(row, keyword) == NotDeleted(row) /\ MatchAgainst(row, keyword) > 0

\* An ORDER BY of the update time alone.
FulltextOrderByTime(row, keyword) == << 0 - row.updated_at >>

\* ORDER BY relevance_score DESC, updated_at DESC
FulltextOrder(row, keyword) == << 0 - MatchAgainst(row, keyword), 0 - row.updated_at >>

Where(row, keyword, mode) ==
    IF mode = "fulltext" THEN FulltextWhere(row, keyword) ELSE BasicWhere(row, keyword)

OrderKey(row, keyword, mode) ==
    IF mode = "fulltext" THEN FulltextOrder(row, keyword) ELSE BasicOrder(row, keyword)

RECURSIVE KeyLeq(_, _)
\* a sorts at or before b
KeyLeq(a, b) ==
    \/ a = <<>>
    \/ Head(a) < Head(b)
    \/ Head(a) = Head(b) /\ KeyLeq(Tail(a), Tail(b))

\* The ids of the rows the WHERE clause selects.
Selected(keyword, mode) == {i \in Ids : Where(documents[i], keyword, mode)}

\* The orders the store may return the selected rows in: any order that
\* agrees with the ORDER BY; rows with equal keys come in any order.
Orders(keyword, mode) ==
    LET S == Selected(keyword, mode)
    IN {f \in [1..Cardinality(S) -> S] :
          /\ \A i, j \in DOMAIN f : i # j => f[i] # f[j]
          /\ \A i, j \in DOMAIN f :
                i < j => KeyLeq(OrderKey(documents[f[i]], keyword, mode),
                                OrderKey(documents[f[j]], keyword, mode))}

\* offset((page - 1) * per_page).limit(per_page) / LIMIT :offset, :limit
Limit(rows, offset, limit) == SubSeq(rows, offset + 1, Min(Len(rows), offset + limit))

\* The rows of a page query, each with the relevance_score it selects.
Rows(order, keyword, mode) ==
    [i \in DOMAIN order |->
        [row |-> documents[order[i]],
         relevance_score |-> IF mode = "fulltext"
                             THEN MatchAgainst(documents[order[i]], keyword)
                             ELSE NoScore]]

\* A result built with no relevance_score, whatever the row carries.
SearchResultUnscored(fetched_row, keyword, highlight) ==
    LET row == fetched_row.row
    IN [id |-> row.id, title |-> row.title, excerpt |-> row.excerpt,
        slug |-> row.slug, status |-> row.status, is_pinned |-> row.is_pinned,
        updated_at |-> row.updated_at, deleted_at |-> row.deleted_at,
        content_text |-> row.content_text,
        relevance_score |-> NoScore,
        highlights |-> IF highlight THEN generate_highlights(row, keyword)
                       ELSE NoHighlights,
        content_preview |-> generate_content_preview(row.content_text, keyword,
                                                     PreviewLength)]

\* DocumentSearchResult(**doc_dict, relevance_score, highlights, content_preview).
\* content_text is no field of the result: it is the text the preview was
\* made of, kept for the properties.
SearchResult(fetched_row, keyword, highlight) ==
    LET row == fetched_row.row
    IN [id |-> row.id, title |-> row.title, excerpt |-> row.excerpt,
        slug |-> row.slug, status |-> row.status, is_pinned |-> row.is_pinned,
        updated_at |-> row.updated_at, deleted_at |-> row.deleted_at,
        content_text |-> row.content_text,
        relevance_score |-> fetched_row.relevance_score,
        highlights |-> IF highlight THEN generate_highlights(row, keyword)
                       ELSE NoHighlights,
        content_preview |-> generate_content_preview(row.content_text, keyword,
                                                     PreviewLength)]

PagesFloor(total, per_page) == total \div per_page

\* pages = (total + per_page - 1) // per_page
PagesOf(total, per_page) == (total + per_page - 1) \div per_page

\* return DocumentSearchResponse(...)
SearchResponse(req, rows, total) ==
    [kind |-> "ok",
     items |-> [i \in DOMAIN rows |-> SearchResult(rows[i], req.keyword, req.highlight)],
     total |-> total,
     pages |-> PagesOf(total, req.per_page),
     current_page |-> req.page,
     per_page |-> req.per_page,
     keyword |-> req.keyword,
     search_mode |-> req.search_mode]

\* A handler that answers a refused query with the basic results.
SearchFallsBack(req, rows, cause) ==
    SearchResponse(req,
        Limit(Rows(CHOOSE order \in Orders(req.keyword, "basic") : TRUE,
                   req.keyword, "basic"),
              (req.page - 1) * req.per_page, req.per_page),
        Cardinality(Selected(req.keyword, "basic")))

\* A handler that reports the error and the rows it had fetched.
SearchFailedWithRows(req, rows, cause) ==
    [kind |-> "error", status_code |-> 500, detail |-> <<"search failed", cause>>,
     items |-> [i \in DOMAIN rows |-> SearchResult(rows[i], req.keyword, req.highlight)]]

\* except Exception as e: raise HTTPException(500, detail=f"搜索失败: {str(e)}")
SearchFailed(req, rows, cause) ==
    [kind |-> "error", status_code |-> 500, detail |-> <<"search failed", cause>>]

NoRequest == [keyword |-> <<>>, page |-> 0, per_page |-> 0,
              search_mode |-> "none", highlight |-> FALSE]
NoFetch == [total |-> 0, results |-> <<>>]
NoResponse == [kind |-> "none"]
\* What the queries of a request read: the rows soft-deleted when the
\* request came and when each query ran, the rows the count query counted,
\* the rows the WHERE clause selected when the page query ran, the queries
\* issued and the error the store raised.
NoObservation == [deleted_before |-> {}, deleted_at_count |-> {},
                  deleted_at_page |-> {}, counted |-> {}, selected |-> {},
                  queries |-> <<>>, raised |-> "nothing"]

Deleted == {i \in Ids : documents[i].deleted_at # NoTime}

Requests == [keyword : Keywords, page : 1..MaxPage, per_page : 1..MaxPerPage,
             search_mode : Modes, highlight : BOOLEAN]

\* What the store does with a query: it answers, or it raises.
StoreOutcomes == {"answer", "OperationalError"}

\* The first query of a request: the count in basic mode, the page in
\* fulltext mode, which the store refuses when it has no FULLTEXT index.
search_documents_first_query(req, outcome) ==
    /\ pc = "idle"
    /\ request' = req
    /\ LET first == IF req.search_mode = "fulltext" THEN "page" ELSE "count"
           seen == [NoObservation EXCEPT !.deleted_before = Deleted,
                                         !.queries = <<first>>]
           refused == req.search_mode = "fulltext" /\ ~fulltext
           cause == IF refused THEN "no FULLTEXT index" ELSE outcome
       IN IF refused \/ outcome # "answer"
          THEN /\ pc' = "done"
               /\ fetched' = NoFetch
               /\ observed' = [seen EXCEPT !.raised = cause]
               /\ response' = SearchFailed(req, <<>>, cause)
          ELSE IF req.search_mode = "fulltext"
          THEN \E order \in Orders(req.keyword, "fulltext") :
                  /\ pc' = "queried"
                  /\ fetched' = [NoFetch EXCEPT !.results =
                        Limit(Rows(order, req.keyword, "fulltext"),
                              (req.page - 1) * req.per_page, req.per_page)]
                  /\ observed' = [seen EXCEPT
                                    !.selected = Selected(req.keyword, "fulltext"),
                                    !.deleted_at_page = Deleted]
                  /\ response' = NoResponse
          ELSE /\ pc' = "queried"
               /\ fetched' = [NoFetch EXCEPT !.total =
                                 Cardinality(Selected(req.keyword, "basic"))]
               /\ observed' = [seen EXCEPT !.counted = Selected(req.keyword, "basic"),
                                            !.deleted_at_count = Deleted]
               /\ response' = NoResponse
    /\ UNCHANGED <<documents, users, clock, fulltext>>
    /\ UNCHANGED <<categories, inflight, reply, call, walk>>

\* The second query, on the store as it is by then, and the response.
search_documents_second_query(outcome) ==
    /\ pc = "queried"
    /\ pc' = "done"
    /\ LET second == IF request.search_mode = "fulltext" THEN "count" ELSE "page"
           seen == [observed EXCEPT !.queries = Append(@, second)]
       IN IF outcome # "answer"
          THEN /\ fetched' = fetched
               /\ observed' = [seen EXCEPT !.raised = outcome]
               /\ response' = SearchFailed(request, fetched.results, outcome)
          ELSE IF request.search_mode = "fulltext"
          THEN LET total == Cardinality(Selected(request.keyword, "fulltext"))
               IN /\ fetched' = [fetched EXCEPT !.total = total]
                  /\ observed' = [seen EXCEPT
                                    !.counted = Selected(request.keyword, "fulltext"),
                                    !.deleted_at_count = Deleted]
                  /\ response' = SearchResponse(request, fetched.results, total)
          ELSE \E order \in Orders(request.keyword, "basic") :
                  LET results == Limit(Rows(order, request.keyword, "basic"),
                                       (request.page - 1) * request.per_page,
                                       request.per_page)
                  IN /\ fetched' = [fetched EXCEPT !.results = results]
                     /\ observed' = [seen EXCEPT
                                       !.selected = Selected(request.keyword, "basic"),
                                       !.deleted_at_page = Deleted]
                     /\ response' = SearchResponse(request, results, fetched.total)
    /\ UNCHANGED <<documents, users, clock, fulltext, request>>
    /\ UNCHANGED <<categories, inflight, reply, call, walk>>

\* A search that stamps the rows of the store when its response has gone.
SearchReturnsAndStamps ==
    /\ pc = "done"
    /\ pc' = "idle"
    /\ request' = NoRequest
    /\ fetched' = NoFetch
    /\ response' = NoResponse
    /\ observed' = NoObservation
    /\ documents' = [i \in Ids |-> [documents[i] EXCEPT !.updated_at = MaxClock]]
    /\ UNCHANGED <<users, clock, fulltext, categories, inflight, reply, call, walk>>

\* The response has gone to the client.
search_documents_return ==
    /\ pc = "done"
    /\ pc' = "idle"
    /\ request' = NoRequest
    /\ fetched' = NoFetch
    /\ response' = NoResponse
    /\ observed' = NoObservation
    /\ UNCHANGED <<documents, users, clock, fulltext>>
    /\ UNCHANGED <<categories, inflight, reply, call, walk>>

Times == clock..MaxClock

\* The workers that serve requests at the same time.
Workers == 1..MaxWorkers

\* A worker with no request between its read and its commit.
NoFlight == [route |-> "none", id |-> 0, title |-> <<>>, slug |-> None,
             username |-> "none", is_admin |-> FALSE]

\* No reply yet.
NoReply == [route |-> "none", id |-> 0, status_code |-> 0, message |-> "none"]

\* No call of a generator.
NoCall == [fn |-> "none", stage |-> 0, given |-> NoDocument, document |-> NoDocument,
           keyword |-> <<>>, first |-> NoHighlights, again |-> NoHighlights,
           preview |-> <<>>]

\* No walk through the pages of a search.
NoWalk == [stage |-> "none", keyword |-> <<>>, per_page |-> 0, page |-> 0, ids |-> <<>>]

Init ==
    /\ walk = NoWalk
    /\ documents = <<>>
    /\ users = <<>>
    /\ clock = 1
    /\ fulltext \in BOOLEAN
    /\ pc = "idle"
    /\ request = NoRequest
    /\ fetched = NoFetch
    /\ response = NoResponse
    /\ observed = NoObservation
    /\ categories = <<>>
    /\ inflight = [w \in Workers |-> NoFlight]
    /\ reply = NoReply
    /\ call = NoCall

\* Requests of several workers on one store: every other route may run
\* between the two queries of a search.  Documents here carry a title only,
\* and the replies of the routes that write are left out.
Next ==
    \/ /\ \E t \in Titles, now \in Times : create_document(t, None, None, now)
       /\ UNCHANGED reply
    \/ /\ \E id \in Ids, t \in Titles, now \in Times :
             update_document(id, "title", t, now)
       /\ UNCHANGED reply
    \/ /\ \E id \in Ids, now \in Times : delete_document(id, now)
       /\ UNCHANGED reply
    \/ \E req \in Requests, outcome \in StoreOutcomes :
          search_documents_first_query(req, outcome)
    \/ \E outcome \in StoreOutcomes : search_documents_second_query(outcome)
    \/ search_documents_return

Spec == Init /\ [][Next]_vars

\* One request at a time, as one worker serves them (a route is a coroutine
\* that never awaits between its queries), on documents of every shape.
InitSequential == Init /\ fulltext

NextSequential ==
    \/ /\ pc = "idle"
       /\ \E t \in Titles, e \in Excerpts, c \in Contents, now \in Times :
             create_document(t, e, c, now)
       /\ UNCHANGED reply
    \/ /\ pc = "idle"
       /\ \E id \in Ids, now \in Times :
             \/ \E t \in Titles : update_document(id, "title", t, now)
             \/ \E e \in Excerpts : update_document(id, "excerpt", e, now)
             \/ \E c \in Contents : update_document(id, "content_text", c, now)
       /\ UNCHANGED reply
    \/ /\ pc = "idle"
       /\ \E id \in Ids, now \in Times : delete_document(id, now)
       /\ UNCHANGED reply
    \/ \E req \in Requests, outcome \in StoreOutcomes :
          search_documents_first_query(req, outcome)
    \/ \E outcome \in StoreOutcomes : search_documents_second_query(outcome)
    \/ search_documents_return

SpecSequential == InitSequential /\ [][NextSequential]_vars

-----------------------------------------------------------------------------
(* The routes that write a slug, each in two steps: what the handler reads *)
(* (the slug loop's queries) and what it commits.  Requests of other       *)
(* workers may commit between the two.                                     *)

\* The slug a request carries: none, or one that a title also yields.
Slugs == { None, <<"a">> }

Reply(route, id, status_code) ==
    [route |-> route, id |-> id, status_code |-> status_code, message |-> "none"]

\* A store whose slug column has no unique index.
SlugUnchecked(slug, rows) == TRUE

\* unique=True of documents.slug: the store refuses a row whose slug another
\* of the rows has.  Rows without a slug (NULL) are never refused.
slug_unique(slug, rows) ==
    IsNone(slug) \/ slug \notin {documents[i].slug : i \in rows}

\* The user a route writes for, made when the table has none of the name.
with_user(name) ==
    IF HasUser(name) THEN users
    ELSE Append(users, [username |-> name, is_admin |-> FALSE])

\* The requests that are about to insert a document.
Inserting == {w \in Workers : inflight[w].route \in
                 {"upload_document", "create_document", "create_document_from_plugin"}}

\* POST /documents/upload up to the commit of the document: the slug loop
\* and the default user.
upload_document_read(worker, title) ==
    /\ inflight[worker] = NoFlight
    /\ Len(documents) + Cardinality(Inserting) < MaxDocs
    /\ users' = with_user("default_user")
    /\ inflight' = [inflight EXCEPT ![worker] =
          [NoFlight EXCEPT !.route = "upload_document", !.title = title,
                           !.slug = unique_slug_of(title, Ids),
                           !.username = "default_user"]]
    /\ UNCHANGED <<documents, clock, fulltext, pc, request, fetched, response,
                   observed, categories, reply, call, walk>>

\* POST /documents up to the commit of the document: the default user, and
\* the slug loop when the request carries no slug.
create_document_read(worker, title, slug) ==
    /\ inflight[worker] = NoFlight
    /\ Len(documents) + Cardinality(Inserting) < MaxDocs
    /\ users' = with_user("default_user")
    /\ inflight' = [inflight EXCEPT ![worker] =
          [NoFlight EXCEPT !.route = "create_document", !.title = title,
                           !.slug = IF Truthy(slug) THEN slug
                                    ELSE unique_slug_of(title, Ids),
                           !.username = "default_user"]]
    /\ UNCHANGED <<documents, clock, fulltext, pc, request, fetched, response,
                   observed, categories, reply, call, walk>>

\* document_data.slug or document_data.title.lower().replace(' ', '-')
plugin_slug_of(title, slug) ==
    IF Truthy(slug) THEN slug
    ELSE [i \in 1..Len(title) |->
             IF LowerChar(title[i]) = " " THEN "-" ELSE LowerChar(title[i])]

\* POST /documents/plugin up to the commit of the document: the plugin's
\* user and the slug loop, which starts from the slug the request carries.
create_document_from_plugin_read(worker, title, slug) ==
    /\ inflight[worker] = NoFlight
    /\ Len(documents) + Cardinality(Inserting) < MaxDocs
    /\ users' = with_user("chrome_plugin_user")
    /\ inflight' = [inflight EXCEPT ![worker] =
          [NoFlight EXCEPT !.route = "create_document_from_plugin", !.title = title,
                           !.slug = FreeSlug(plugin_slug_of(title, slug), 0,
                                             {documents[i].slug : i \in Ids}),
                           !.username = "chrome_plugin_user"]]
    /\ UNCHANGED <<documents, clock, fulltext, pc, request, fetched, response,
                   observed, categories, reply, call, walk>>

\* db.add(document); db.commit() of the three routes: the row is inserted,
\* or the store refuses its slug and the request ends in an error (the
\* HTTPException of create_document, the unhandled IntegrityError of the
\* other two), the session rolled back.
document_commit(worker, now) ==
    /\ worker \in Inserting
    /\ LET flight == inflight[worker]
           owner == CHOOSE u \in DOMAIN users : users[u].username = flight.username
       IN IF slug_unique(flight.slug, Ids)
          THEN /\ documents' = Append(documents,
                     [id |-> Len(documents) + 1,
                      user_id |-> owner,
                      title |-> flight.title,
                      excerpt |-> None,
                      content_text |-> None,
                      slug |-> flight.slug,
                      status |-> 0,
                      is_pinned |-> FALSE,
                      updated_at |-> now,
                      deleted_at |-> NoTime])
               /\ reply' = Reply(flight.route, Len(documents) + 1, 201)
          ELSE /\ documents' = documents
               /\ reply' = Reply(flight.route, 0, 500)
    /\ inflight' = [inflight EXCEPT ![worker] = NoFlight]
    /\ clock' = now
    /\ UNCHANGED <<users, fulltext, pc, request, fetched, response, observed,
                   categories, call, walk>>

\* PUT /documents/{id} up to its commit, with a title, a slug or both set
\* (None: not set): the lookup and, for a title with no slug, the slug loop
\* over the other rows.
update_document_read(worker, id, title, slug) ==
    /\ inflight[worker] = NoFlight
    /\ Live(id)
    /\ ~IsNone(title) \/ ~IsNone(slug)
    /\ inflight' = [inflight EXCEPT ![worker] =
          [NoFlight EXCEPT !.route = "update_document", !.id = id,
                           !.title = title,
                           !.slug = IF ~IsNone(title) /\ ~Truthy(slug)
                                    THEN unique_slug_of(title, Ids \ {id})
                                    ELSE slug]]
    /\ UNCHANGED <<documents, users, clock, fulltext, pc, request, fetched, response,
                   observed, categories, reply, call, walk>>

\* The commit of the update: the row takes the title and the slug, or the
\* store refuses the slug and the request ends in an error, rolled back.
update_document_commit(worker, now) ==
    /\ inflight[worker].route = "update_document"
    /\ LET flight == inflight[worker]
       IN IF slug_unique(flight.slug, Ids \ {flight.id})
          THEN /\ documents' = [documents EXCEPT ![flight.id] =
                     [@ EXCEPT !.title = IF IsNone(flight.title) THEN @ ELSE flight.title,
                               !.slug = flight.slug,
                               !.updated_at = now]]
               /\ reply' = Reply("update_document", flight.id, 200)
          ELSE /\ documents' = documents
               /\ reply' = Reply("update_document", flight.id, 500)
    /\ inflight' = [inflight EXCEPT ![worker] = NoFlight]
    /\ clock' = now
    /\ UNCHANGED <<users, fulltext, pc, request, fetched, response, observed,
                   categories, call, walk>>

NextSlugs ==
    \/ \E w \in Workers, t \in Titles : upload_document_read(w, t)
    \/ \E w \in Workers, t \in Titles, slug \in Slugs : create_document_read(w, t, slug)
    \/ \E w \in Workers, t \in Titles, slug \in Slugs :
          create_document_from_plugin_read(w, t, slug)
    \/ \E w \in Workers : document_commit(w, clock)
    \/ \E w \in Workers, id \in Ids, t \in Titles \cup {None}, slug \in Slugs :
          update_document_read(w, id, t, slug)
    \/ \E w \in Workers : update_document_commit(w, clock)
    \/ /\ \E id \in Ids : delete_document(id, clock)
       /\ UNCHANGED reply

SpecSlugs == InitSequential /\ [][NextSlugs]_vars

-----------------------------------------------------------------------------
(* The routes that take a document id, one request at a time.              *)

\* status: 0 = draft, 1 = published, 2 = archived
Statuses == {0, 1, 2}

IdRoutes == {"get_document", "update_document", "delete_document",
             "publish_document", "toggle_pin_document"}

\* if not document: raise HTTPException(status_code=404) of the five routes
document_not_found(route, id) ==
    /\ ~Live(id)
    /\ reply' = Reply(route, id, 404)
    /\ UNCHANGED <<documents, users, clock, fulltext, pc, request, fetched, response,
                   observed, categories, inflight, call, walk>>

\* GET /documents/{id}
get_document(id) ==
    /\ Live(id)
    /\ reply' = Reply("get_document", id, 200)
    /\ UNCHANGED <<documents, users, clock, fulltext, pc, request, fetched, response,
                   observed, categories, inflight, call, walk>>

\* A publish that stamps updated_at of a document already published.
PublishStampsAgain(id, now) ==
    /\ Live(id)
    /\ documents' = [documents EXCEPT ![id].status = 1, ![id].updated_at = now]
    /\ clock' = now
    /\ reply' = [Reply("publish_document", id, 200) EXCEPT !.message =
                    IF documents[id].status = 1 THEN "already published"
                    ELSE "published"]
    /\ UNCHANGED <<users, fulltext, pc, request, fetched, response, observed,
                   categories, inflight, call, walk>>

\* POST /documents/{id}/publish
publish_document(id, now) ==
    /\ Live(id)
    /\ IF documents[id].status = 1
       THEN /\ UNCHANGED <<documents, clock>>
            /\ reply' = [Reply("publish_document", id, 200)
                            EXCEPT !.message = "already published"]
       ELSE /\ documents' = [documents EXCEPT ![id].status = 1, ![id].updated_at = now]
            /\ clock' = now
            /\ reply' = [Reply("publish_document", id, 200)
                            EXCEPT !.message = "published"]
    /\ UNCHANGED <<users, fulltext, pc, request, fetched, response, observed,
                   categories, inflight, call, walk>>

\* A route that pins the document, pinned or not.
PinDocument(id, now) ==
    /\ Live(id)
    /\ documents' = [documents EXCEPT ![id].is_pinned = TRUE, ![id].updated_at = now]
    /\ clock' = now
    /\ reply' = [Reply("toggle_pin_document", id, 200) EXCEPT !.message = "pinned"]
    /\ UNCHANGED <<users, fulltext, pc, request, fetched, response, observed,
                   categories, inflight, call, walk>>

\* POST /documents/{id}/pin; the message tells the value is_pinned has now.
toggle_pin_document(id, now) ==
    /\ Live(id)
    /\ documents' = [documents EXCEPT ![id].is_pinned = ~@, ![id].updated_at = now]
    /\ clock' = now
    /\ reply' = [Reply("toggle_pin_document", id, 200) EXCEPT !.message =
                    IF documents[id].is_pinned THEN "unpinned" ELSE "pinned"]
    /\ UNCHANGED <<users, fulltext, pc, request, fetched, response, observed,
                   categories, inflight, call, walk>>

NextRoutes ==
    \/ /\ \E t \in Titles, now \in Times : create_document(t, None, None, now)
       /\ reply' = Reply("create_document", Len(documents) + 1, 201)
    \/ \E id \in Ids, now \in Times :
          /\ \/ \E t \in Titles : update_document(id, "title", t, now)
             \/ \E s \in Statuses : update_document(id, "status", s, now)
             \/ \E p \in BOOLEAN : update_document(id, "is_pinned", p, now)
          /\ reply' = Reply("update_document", id, 200)
    \/ \E id \in Ids, now \in Times :
          /\ delete_document(id, now)
          /\ reply' = Reply("delete_document", id, 200)
    \/ \E id \in Ids : get_document(id)
    \/ \E id \in Ids, now \in Times : publish_document(id, now)
    \/ \E id \in Ids, now \in Times : toggle_pin_document(id, now)
    \/ \E route \in IdRoutes, id \in 1..MaxDocs : document_not_found(route, id)

SpecRoutes == InitSequential /\ [][NextRoutes]_vars

-----------------------------------------------------------------------------
(* Registration, in two steps: what the handler reads (the name is free,   *)
(* the table is empty or not) and what it commits.  A request stands for   *)
(* its username and its email, which no other request carries.             *)

Usernames == {"u1", "u2"}

Registering == {w \in Workers : inflight[w].route = "register"}

\* POST /auth/register up to db.add(user)
register_read(worker, username) ==
    /\ inflight[worker] = NoFlight
    /\ Len(users) + Cardinality(Registering) < MaxUsers
    /\ IF HasUser(username)
       THEN /\ reply' = Reply("register", 0, 400)
            /\ UNCHANGED inflight
       ELSE /\ inflight' = [inflight EXCEPT ![worker] =
                  [NoFlight EXCEPT !.route = "register", !.username = username,
                                   !.is_admin = (Cardinality(UserIds) = 0)]]
            /\ UNCHANGED reply
    /\ UNCHANGED <<documents, users, clock, fulltext, pc, request, fetched, response,
                   observed, categories, call, walk>>

\* db.commit() of register: the row is inserted, or the store refuses the
\* username another row has taken since (unique=True) and the request ends
\* in the unhandled IntegrityError.
register_commit(worker) ==
    /\ inflight[worker].route = "register"
    /\ LET flight == inflight[worker]
       IN IF HasUser(flight.username)
          THEN /\ users' = users
               /\ reply' = Reply("register", 0, 500)
          ELSE /\ users' = Append(users, [username |-> flight.username,
                                           is_admin |-> flight.is_admin])
               /\ reply' = Reply("register", Len(users) + 1, 201)
    /\ inflight' = [inflight EXCEPT ![worker] = NoFlight]
    /\ UNCHANGED <<documents, clock, fulltext, pc, request, fetched, response,
                   observed, categories, call, walk>>

NextUsers ==
    \/ \E w \in Workers, name \in Usernames : register_read(w, name)
    \/ \E w \in Workers : register_commit(w)
    \/ /\ \E t \in Titles : create_document(t, None, None, clock)
       /\ UNCHANGED reply

SpecUsers == InitSequential /\ [][NextUsers]_vars

-----------------------------------------------------------------------------
(* The two user routes of administrators, each in two steps: what the      *)
(* request reads (the user who sends it, whom get_current_admin_user must  *)
(* find to be an administrator, and the row of user_id) and what it        *)
(* commits.  Requests of other workers may commit between the two.         *)

\* The request is sent by a user who is an administrator in the store.
IsAdmin(current) == current \in UserIds /\ users[current].is_admin

\* get_current_admin_user refuses the request.
admin_required(worker, route, current) ==
    /\ inflight[worker] = NoFlight
    /\ ~IsAdmin(current)
    /\ reply' = Reply(route, 0, 403)
    /\ UNCHANGED <<documents, users, clock, fulltext, pc, request, fetched, response,
                   observed, categories, inflight, call, walk>>

\* POST /users/{user_id}/toggle-admin up to the assignment: 400 for the
\* sender's own id, 404 for an id with no row, and else the row is loaded.
toggle_admin_read(worker, current, user_id) ==
    /\ inflight[worker] = NoFlight
    /\ IsAdmin(current)
    /\ IF current = user_id
       THEN /\ reply' = Reply("toggle_admin", user_id, 400)
            /\ UNCHANGED inflight
       ELSE IF user_id \notin UserIds
       THEN /\ reply' = Reply("toggle_admin", user_id, 404)
            /\ UNCHANGED inflight
       ELSE /\ inflight' = [inflight EXCEPT ![worker] =
                  [NoFlight EXCEPT !.route = "toggle_admin", !.id = user_id,
                                   !.username = users[user_id].username,
                                   !.is_admin = users[user_id].is_admin]]
            /\ UNCHANGED reply
    /\ UNCHANGED <<documents, users, clock, fulltext, pc, request, fetched, response,
                   observed, categories, call, walk>>

\* user.is_admin = not user.is_admin; db.commit(): the row is written with
\* the opposite of the value the request loaded; when the row is gone the
\* UPDATE matches no row and the request ends in the unhandled error.
toggle_admin_commit(worker) ==
    /\ inflight[worker].route = "toggle_admin"
    /\ LET flight == inflight[worker]
       IN IF flight.id \notin UserIds
          THEN /\ users' = users
               /\ reply' = Reply("toggle_admin", flight.id, 500)
          ELSE /\ users' = [users EXCEPT ![flight.id].is_admin = ~flight.is_admin]
               /\ reply' = Reply("toggle_admin", flight.id, 200)
    /\ inflight' = [inflight EXCEPT ![worker] = NoFlight]
    /\ UNCHANGED <<documents, clock, fulltext, pc, request, fetched, response,
                   observed, categories, call, walk>>

\* DELETE /users/{user_id} up to db.delete(user): 400 for the sender's own
\* id, 404 for an id with no row, and else the row is loaded.
delete_user_read(worker, current, user_id) ==
    /\ inflight[worker] = NoFlight
    /\ IsAdmin(current)
    /\ IF current = user_id
       THEN /\ reply' = Reply("delete_user", user_id, 400)
            /\ UNCHANGED inflight
       ELSE IF user_id \notin UserIds
       THEN /\ reply' = Reply("delete_user", user_id, 404)
            /\ UNCHANGED inflight
       ELSE /\ inflight' = [inflight EXCEPT ![worker] =
                  [NoFlight EXCEPT !.route = "delete_user", !.id = user_id,
                                   !.username = users[user_id].username,
                                   !.is_admin = users[user_id].is_admin]]
            /\ UNCHANGED reply
    /\ UNCHANGED <<documents, users, clock, fulltext, pc, request, fetched, response,
                   observed, categories, call, walk>>

\* db.delete(user); db.commit(): the row is removed, if it is still there.
delete_user_commit(worker) ==
    /\ inflight[worker].route = "delete_user"
    /\ LET flight == inflight[worker]
       IN /\ users' = IF flight.id \in UserIds
                      THEN [users EXCEPT ![flight.id] = NoUser]
                      ELSE users
          /\ reply' = Reply("delete_user", flight.id, 200)
    /\ inflight' = [inflight EXCEPT ![worker] = NoFlight]
    /\ UNCHANGED <<documents, clock, fulltext, pc, request, fetched, response,
                   observed, categories, call, walk>>

\* Registrations come one at a time here, so that the first user alone is
\* made an administrator by registering.
NextAdmins ==
    \/ /\ \A w \in Workers : inflight[w] = NoFlight
       /\ \E name \in Usernames : register_read(1, name)
    \/ register_commit(1)
    \/ \E w \in Workers, current \in 1..MaxUsers :
          admin_required(w, "toggle_admin", current)
    \/ \E w \in Workers, current \in 1..MaxUsers :
          admin_required(w, "delete_user", current)
    \/ \E w \in Workers, current, user_id \in 1..MaxUsers :
          toggle_admin_read(w, current, user_id)
    \/ \E w \in Workers : toggle_admin_commit(w)
    \/ \E w \in Workers, current, user_id \in 1..MaxUsers :
          delete_user_read(w, current, user_id)
    \/ \E w \in Workers : delete_user_commit(w)

SpecAdmins == InitSequential /\ [][NextAdmins]_vars

-----------------------------------------------------------------------------
(* Searches among requests that write the three tables.                    *)

CategoryNames == {"c1"}

\* POST /categories, which get_current_admin_user lets an administrator reach.
create_category(name) ==
    /\ \E u \in DOMAIN users : users[u].is_admin
    /\ Len(categories) < MaxCategories
    /\ IF \E c \in DOMAIN categories : categories[c].name = name
       THEN /\ reply' = Reply("create_category", 0, 400)
            /\ UNCHANGED categories
       ELSE /\ categories' = Append(categories, [id |-> Len(categories) + 1,
                                                  name |-> name])
            /\ reply' = Reply("create_category", Len(categories) + 1, 201)
    /\ UNCHANGED <<documents, users, clock, fulltext, pc, request, fetched, response,
                   observed, inflight, call, walk>>

\* The searches of this specification ask for the first page.
StoreRequests == {req \in Requests : req.page = 1 /\ req.per_page = 1}

NextStore ==
    \/ /\ \E t \in Titles : create_document(t, None, None, clock)
       /\ UNCHANGED reply
    \/ /\ \E id \in Ids : delete_document(id, clock)
       /\ UNCHANGED reply
    \/ \E name \in Usernames : register_read(1, name)
    \/ register_commit(1)
    \/ \E name \in CategoryNames : create_category(name)
    \/ \E req \in StoreRequests, outcome \in StoreOutcomes :
          search_documents_first_query(req, outcome)
    \/ \E outcome \in StoreOutcomes : search_documents_second_query(outcome)
    \/ search_documents_return

SpecStore == Init /\ [][NextStore]_vars

-----------------------------------------------------------------------------
(* Calls of the two generators on texts long enough to be clipped.         *)

TitleMax == 255
ExcerptMax == 500
KeywordMax == 200

Filler(n) == [i \in 1..n |-> "x"]

UpperChar(c) ==
    IF \E i \in 1..26 : Lowers[i] = c
    THEN Uppers[CHOOSE i \in 1..26 : Lowers[i] = c] ELSE c

\* The keyword as a text may hold it: its first letter a capital.
Capital(term) == [i \in 1..Len(term) |-> IF i = 1 THEN UpperChar(term[i]) ELSE term[i]]

\* A keyword of the greatest length the route accepts.
LongKeyword == [i \in 1..KeywordMax |-> IF i = 1 THEN "a" ELSE "b"]

CallKeywords == { <<"a">>, <<"a", "b">>, <<".">>, LongKeyword }

\* Lengths of the text before the keyword, between its two occurrences (-1:
\* it occurs once) and after it; and lengths of texts that do not hold it.
Befores == {0, 1, 50, 51}
Gaps == {-1, 0, 49, 60}
Afters == {0, 1, 50, 51}
Plains == {0, 200, 201}

TextsWith(term) ==
    { Filler(before) \o Capital(term)
        \o (IF gap >= 0 THEN Filler(gap) \o term ELSE <<>>) \o Filler(after) :
        before \in Befores, gap \in (IF Len(term) > 2 THEN {-1} ELSE Gaps),
        after \in Afters }

TextsWithout == { Filler(n) : n \in Plains }

Tagged(text) == <<"<", "a", ">">> \o text \o <<"<", "/", "a", ">">>

\* The documents a generator is called on: the text in one of the three
\* attributes or in all of them, within the lengths the columns take.
CallDocuments(term) ==
    LET texts == TextsWith(term) \cup TextsWithout
        titles == {t \in texts : Len(t) \in 1..TitleMax}
        excerpts == {t \in texts : Len(t) <= ExcerptMax}
    IN {[NoDocument EXCEPT !.title = t] : t \in titles}
       \cup {[NoDocument EXCEPT !.excerpt = t] : t \in excerpts}
       \cup {[NoDocument EXCEPT !.content_text = t] : t \in texts}
       \cup {[NoDocument EXCEPT !.content_text = Tagged(t)] : t \in texts}
       \cup {[title |-> t, excerpt |-> t, content_text |-> Tagged(t)] : t \in titles}

\* A document whose title is overwritten with its highlight.
DocumentMarked(document, search_term) ==
    [document EXCEPT !.title = highlight_text(document.title, search_term, TitleLength)]

\* The document after _generate_highlights: the function assigns to the
\* SearchHighlight it builds and to no attribute of the document.
highlighted_document(document, search_term) == document

generate_highlights_first(document, search_term) ==
    /\ pc = "idle"
    /\ call.fn = "none"
    /\ call' = [NoCall EXCEPT !.fn = "highlights", !.stage = 1,
                              !.given = document,
                              !.document = highlighted_document(document, search_term),
                              !.keyword = search_term,
                              !.first = generate_highlights(document, search_term)]
    /\ UNCHANGED <<documents, users, clock, fulltext, pc, request, fetched, response,
                   observed, categories, inflight, reply, walk>>

\* The same call again, on the document as the first call left it.
generate_highlights_again ==
    /\ call.fn = "highlights"
    /\ call.stage = 1
    /\ call' = [call EXCEPT !.stage = 2,
                            !.document = highlighted_document(call.document, call.keyword),
                            !.again = generate_highlights(call.document, call.keyword)]
    /\ UNCHANGED <<documents, users, clock, fulltext, pc, request, fetched, response,
                   observed, categories, inflight, reply, walk>>

generate_content_preview_call(document, search_term) ==
    /\ pc = "idle"
    /\ call.fn = "none"
    /\ call' = [NoCall EXCEPT !.fn = "preview", !.stage = 1,
                              !.given = document, !.document = document,
                              !.keyword = search_term,
                              !.preview = generate_content_preview(
                                             document.content_text, search_term,
                                             PreviewLength)]
    /\ UNCHANGED <<documents, users, clock, fulltext, pc, request, fetched, response,
                   observed, categories, inflight, reply, walk>>

\* The caller is done with what the generator returned.
generator_return ==
    /\ call.fn # "none"
    /\ call.fn = "highlights" => call.stage = 2
    /\ call' = NoCall
    /\ UNCHANGED <<documents, users, clock, fulltext, pc, request, fetched, response,
                   observed, categories, inflight, reply, walk>>

NextFunctions ==
    \/ \E term \in CallKeywords : \E document \in CallDocuments(term) :
          generate_highlights_first(document, term)
    \/ generate_highlights_again
    \/ \E term \in CallKeywords : \E document \in CallDocuments(term) :
          generate_content_preview_call(document, term)
    \/ generator_return

SpecFunctions == Init /\ [][NextFunctions]_vars

-----------------------------------------------------------------------------
(* A client that walks through the pages of one basic-mode search: it asks *)
(* for page 1, then for each next page up to the pages the response        *)
(* reports.  Nothing writes the store while a walk is under way.           *)

WalkKeywords == { <<"a">> }

\* The request for the page the walk stands at.
WalkRequest ==
    [keyword |-> walk.keyword, page |-> walk.page, per_page |-> walk.per_page,
     search_mode |-> "basic", highlight |-> FALSE]

\* The client sets out: GET /documents/search?keyword=..&per_page=..&page=1
walk_begin(keyword, per_page) ==
    /\ walk.stage = "none"
    /\ pc = "idle"
    /\ walk' = [stage |-> "walking", keyword |-> keyword, per_page |-> per_page,
                page |-> 1, ids |-> <<>>]
    /\ UNCHANGED <<documents, users, clock, fulltext, pc, request, fetched, response,
                   observed, categories, inflight, reply, call>>

\* The response has gone to the client, which notes the ids of its items
\* and goes on to the next page when the response reports one.
walk_page_return ==
    /\ pc = "done"
    /\ walk.stage = "walking"
    /\ pc' = "idle"
    /\ request' = NoRequest
    /\ fetched' = NoFetch
    /\ response' = NoResponse
    /\ observed' = NoObservation
    /\ walk' = [walk EXCEPT
                  !.ids = @ \o [i \in DOMAIN response.items |-> response.items[i].id],
                  !.page = IF walk.page < response.pages THEN @ + 1 ELSE @,
                  !.stage = IF walk.page < response.pages THEN "walking" ELSE "done"]
    /\ UNCHANGED <<documents, users, clock, fulltext, categories, inflight, reply, call>>

\* The client has done with the pages it collected.
walk_end ==
    /\ walk.stage = "done"
    /\ walk' = NoWalk
    /\ UNCHANGED <<documents, users, clock, fulltext, pc, request, fetched, response,
                   observed, categories, inflight, reply, call>>

NextWalk ==
    \/ /\ walk.stage = "none"
       /\ \E t \in Titles, now \in Times : create_document(t, None, None, now)
       /\ UNCHANGED reply
    \/ /\ walk.stage = "none"
       /\ \E id \in Ids, t \in Titles, now \in Times :
             update_document(id, "title", t, now)
       /\ UNCHANGED reply
    \/ /\ walk.stage = "none"
       /\ \E id \in Ids, now \in Times : delete_document(id, now)
       /\ UNCHANGED reply
    \/ \E keyword \in WalkKeywords, per_page \in 1..MaxPerPage :
          walk_begin(keyword, per_page)
    \/ /\ walk.stage = "walking"
       /\ search_documents_first_query(WalkRequest, "answer")
    \/ /\ walk.stage = "walking"
       /\ search_documents_second_query("answer")
    \/ walk_page_return
    \/ walk_end

SpecWalk == InitSequential /\ [][NextWalk]_vars

-----------------------------------------------------------------------------
(* Properties.                                                             *)

Answered == response.kind = "ok"

Items == {response.items[i] : i \in DOMAIN response.items}

CeilDiv(n, d) == IF n % d = 0 THEN n \div d ELSE (n \div d) + 1

\* C1: every successful search response, in either mode, reports
\* pages = ceil(total / per_page), which is 0 when total is 0, and holds at
\* most per_page items, for the page >= 1 and per_page it was asked for.
C1_PagesAndPageSize ==
    Answered =>
        /\ response.current_page >= 1
        /\ response.per_page \in 1..50
        /\ response.pages = CeilDiv(response.total, response.per_page)
        /\ (response.total = 0 => response.pages = 0)
        /\ Len(response.items) <= response.per_page

\* A fulltext response whose total is no multiple of per_page.
C1_Witness ==
    /\ Answered
    /\ response.search_mode = "fulltext"
    /\ response.total = 1
    /\ response.per_page = 2
    /\ Len(response.items) = 1

\* C2: the total of a search response is the number of rows its predicate
\* selected in the store state the returned page was read from, whatever
\* other requests wrote between the count query and the page query.
C2_TotalCountsThePageState ==
    Answered => response.total = Cardinality(observed.selected)

\* C3: no search returns a soft-deleted row or counts one in total: not a row
\* that was deleted when the query ran, and so no row whose delete_document
\* had succeeded before the search came.
C3_DeletedNeverReturned ==
    Answered =>
        /\ \A item \in Items :
              /\ item.deleted_at = NoTime
              /\ item.id \notin observed.deleted_at_page
              /\ item.id \notin observed.deleted_before
        /\ response.total = Cardinality(observed.counted)
        /\ observed.counted \cap observed.deleted_at_count = {}
        /\ observed.counted \cap observed.deleted_before = {}

\* A search answered while a row that holds the keyword was soft-deleted
\* before the search came.
C3_Witness ==
    /\ Answered
    /\ \E i \in observed.deleted_before : In(request.keyword, documents[i].title)
    /\ response.total > 0

\* The keyword stands in the text as it is written, letter case included.
Literally(keyword, text) == ~IsNone(text) /\ In(keyword, text)

LiteralMatch(row, keyword) ==
    \/ Literally(keyword, row.title)
    \/ Literally(keyword, row.excerpt)
    \/ Literally(keyword, row.content_text)

BasicAnswered == Answered /\ response.search_mode = "basic"

\* C4: in basic mode a row that is not deleted is selected exactly when the
\* keyword is a literal, case-sensitive substring of its title, excerpt or
\* content_text, for every keyword ('%' and '_' in it included) and every
\* row (its excerpt or content_text missing or not).
C4_BasicMatchIsLiteralSubstring ==
    BasicAnswered =>
        observed.selected =
            {i \in Ids : documents[i].deleted_at = NoTime
                         /\ LiteralMatch(documents[i], response.keyword)}

\* The three tiers of C5 as a key that sorts ascending: title holds the
\* keyword, then excerpt holds it (no excerpt: it does not), then the later
\* updated_at.
ClaimedOrder(item, keyword) ==
    << IF Literally(keyword, item.title) THEN 0 ELSE 1,
       IF Literally(keyword, item.excerpt) THEN 0 ELSE 1,
       0 - item.updated_at >>

\* C5: the items of a basic response come in three tiers: title holding the
\* keyword first; within that, excerpt holding the keyword first, a row with
\* no excerpt counting as not holding it; within that, latest updated_at first.
C5_BasicOrderIsThreeTiers ==
    BasicAnswered =>
        \A i, j \in DOMAIN response.items :
            i < j => KeyLeq(ClaimedOrder(response.items[i], response.keyword),
                            ClaimedOrder(response.items[j], response.keyword))

\* C6: with T the total reported, p the page and n the page size, the
\* response holds the matches at places (p-1)*n+1 .. min(p*n, T) of the
\* ordered match list, none when (p-1)*n >= T, and total and pages are those
\* of the whole match set.
C6_PageIsItsSliceOfTheMatches ==
    Answered =>
        LET T == response.total
            p == response.current_page
            n == response.per_page
        IN /\ Len(response.items) =
                 IF (p - 1) * n >= T THEN 0 ELSE Min(p * n, T) - (p - 1) * n
           /\ T = Cardinality(observed.selected)
           /\ response.pages = CeilDiv(T, n)
           /\ response.search_mode = "basic" =>
                 \E order \in Orders(response.keyword, "basic") :
                    [i \in DOMAIN response.items |-> response.items[i].id]
                       = Limit(order, (p - 1) * n, n)

C8_StoreErrorEndsTheRequest ==
    /\ (pc = "done" /\ observed.raised # "nothing") =>
          /\ response.kind = "error"
          /\ response.status_code = 500
          /\ response.detail = <<"search failed", observed.raised>>
          /\ "items" \notin DOMAIN response
    /\ observed.raised # "nothing" => pc = "done"
    /\ Len(observed.queries) <= 2
    /\ (pc = "done" /\ observed.raised = "nothing") => Answered

\* The store raised in the second query, after the first had returned rows.
C8_Witness ==
    /\ pc = "done"
    /\ observed.raised = "OperationalError"
    /\ Len(observed.queries) = 2
    /\ fetched.results # <<>>
    /\ response.kind = "error"

\* The keyword occurs in the field, letter case apart.
OccursIgnoringCase(keyword, field) ==
    /\ ~IsNone(field)
    /\ Len(field) > 0
    /\ \E at \in 0..(Len(field) - Len(keyword)) :
          \A k \in 1..Len(keyword) :
             LowerChar(field[at + k]) = LowerChar(keyword[k])

\* C9: with highlighting asked for, each of title, excerpt and content_text
\* of a result has its highlight exactly when the field is not empty and
\* holds the keyword, letter case apart; a field without the keyword, or a
\* missing field, has none, and the search still answers.
C9_HighlightIffFieldHoldsKeyword ==
    (pc = "done" /\ request.highlight /\ observed.raised = "nothing") =>
        /\ Answered
        /\ \A item \in Items :
              /\ item.highlights.given
              /\ ~IsNone(item.highlights.title)
                    <=> OccursIgnoringCase(response.keyword, item.title)
              /\ ~IsNone(item.highlights.excerpt)
                    <=> OccursIgnoringCase(response.keyword, item.excerpt)
              /\ ~IsNone(item.highlights.content_preview)
                    <=> OccursIgnoringCase(response.keyword, item.content_text)

\* A result whose title holds the keyword in another letter case only, and so
\* is highlighted, and whose excerpt is missing, and so is not.
C9_Witness ==
    /\ Answered
    /\ request.highlight
    /\ \E item \in Items :
          /\ ~Literally(response.keyword, item.title)
          /\ ~IsNone(item.highlights.title)
          /\ IsNone(item.excerpt)
          /\ IsNone(item.highlights.excerpt)

\* C10 as stated: the content_preview of a result is not empty whenever its
\* content_text is not empty, with highlight true or false, in both modes.
C10_PreviewWheneverContent ==
    Answered =>
        \A item \in Items : Truthy(item.content_text) => item.content_preview # <<>>

\* C10 as amended: the content_preview of a result is not empty exactly when
\* its content_text, with the markup tags removed, is not empty, with
\* highlight true or false, in both modes.
C10_PreviewWheneverTextOutsideTags ==
    Answered =>
        \A item \in Items :
            item.content_preview # <<>>
               <=> (Truthy(item.content_text) /\ StripTags(item.content_text) # <<>>)

\* A result built without highlights whose content_text holds text and
\* whose preview holds it.
C10_Witness ==
    /\ Answered
    /\ ~request.highlight
    /\ \E item \in Items :
          /\ Truthy(item.content_text)
          /\ item.content_preview = item.content_text

FulltextAnswered == Answered /\ response.search_mode = "fulltext"

\* C12: every item of a basic response has no relevance_score, and every
\* item of a fulltext response has the score the store returned for its
\* row, which is the score of the row's full-text match with the keyword.
C12_ScoreOnlyInFulltext ==
    /\ BasicAnswered => \A item \in Items : item.relevance_score = NoScore
    /\ FulltextAnswered =>
          /\ Len(response.items) = Len(fetched.results)
          /\ \A i \in DOMAIN response.items :
                /\ response.items[i].relevance_score # NoScore
                /\ response.items[i].relevance_score = fetched.results[i].relevance_score
                /\ response.items[i].relevance_score =
                      MatchAgainst(documents[response.items[i].id], response.keyword)

\* A fulltext response with an item whose score is that of two matching
\* columns.
C12_Witness ==
    /\ FulltextAnswered
    /\ \E item \in Items : item.relevance_score = 2

\* C13: the items of a fulltext response come by relevance score, highest
\* first, and by updated_at, latest first, among equal scores; every item
\* is a row that is not deleted and has a positive full-text match.
C13_FulltextOrderAndMembers ==
    FulltextAnswered =>
        /\ \A i, j \in DOMAIN response.items :
              i < j =>
                 \/ response.items[i].relevance_score > response.items[j].relevance_score
                 \/ /\ response.items[i].relevance_score = response.items[j].relevance_score
                    /\ response.items[i].updated_at >= response.items[j].updated_at
        /\ \A item \in Items :
              /\ item.deleted_at = NoTime
              /\ item.relevance_score > 0
              /\ item.id \in observed.selected
              /\ item.id \notin observed.deleted_at_page

\* A fulltext response whose first item has the higher score and the
\* earlier update time.
C13_Witness ==
    /\ FulltextAnswered
    /\ Len(response.items) = 2
    /\ response.items[1].relevance_score > response.items[2].relevance_score
    /\ response.items[1].updated_at < response.items[2].updated_at

OccursAt(text, keyword, p) ==
    /\ p >= 0
    /\ p + Len(keyword) <= Len(text)
    /\ \A k \in 1..Len(keyword) : LowerChar(text[p + k]) = LowerChar(keyword[k])

FirstAt(text, keyword) ==
    CHOOSE p \in 0..Len(text) :
        /\ OccursAt(text, keyword, p)
        /\ \A q \in 0..(p - 1) : ~OccursAt(text, keyword, q)

RECURSIVE WrapFrom(_, _, _)
\* The window from its i-th character on, each occurrence of the keyword in
\* it between <mark> and </mark>, its letters as they are in the window.
WrapFrom(window, keyword, i) ==
    LET later == {p \in (i - 1)..Len(window) : OccursAt(window, keyword, p)}
    IN IF later = {} THEN SubSeq(window, i, Len(window))
       ELSE LET p == CHOOSE q \in later : \A r \in later : q <= r
            IN SubSeq(window, i, p)
                 \o MarkOpen \o SubSeq(window, p + 1, p + Len(keyword)) \o MarkClose
                 \o WrapFrom(window, keyword, p + Len(keyword) + 1)

\* The fragment C17 describes for a field that holds the keyword.
ClaimedFragment(text, keyword) ==
    LET at == FirstAt(text, keyword)
        from == IF at - 50 > 0 THEN at - 50 ELSE 0
        to == IF at + Len(keyword) + 50 < Len(text)
              THEN at + Len(keyword) + 50 ELSE Len(text)
    IN (IF from > 0 THEN Ellipsis ELSE <<>>)
         \o WrapFrom(SubSeq(text, from + 1, to), keyword, 1)
         \o (IF to < Len(text) THEN Ellipsis ELSE <<>>)

Holds(text, keyword) ==
    ~IsNone(text) /\ \E p \in 0..Len(text) : OccursAt(text, keyword, p)

Highlighted == call.fn = "highlights" /\ call.stage >= 1

\* C17: the fragment of a field that holds the keyword is the window from 50
\* characters before the first occurrence (letter case apart) to 50 after
\* its end, clipped to the field, with '...' before it exactly when it does
\* not start the field and after it exactly when it does not end the field,
\* and with every occurrence of the keyword in the window, letter case
\* apart, between <mark> and </mark> in its own letter case.
C17_FragmentIsMarkedWindow ==
    Highlighted =>
        /\ Holds(call.given.title, call.keyword) =>
              call.first.title = ClaimedFragment(call.given.title, call.keyword)
        /\ Holds(call.given.excerpt, call.keyword) =>
              call.first.excerpt = ClaimedFragment(call.given.excerpt, call.keyword)
        /\ Holds(call.given.content_text, call.keyword) =>
              call.first.content_preview =
                 ClaimedFragment(call.given.content_text, call.keyword)

RECURSIVE Unmark(_)
\* The fragment without its <mark> and </mark> markers.
Unmark(fragment) ==
    LET MarkerAt(i) ==
            IF i + Len(MarkOpen) - 1 <= Len(fragment)
               /\ SubSeq(fragment, i, i + Len(MarkOpen) - 1) = MarkOpen
            THEN Len(MarkOpen)
            ELSE IF i + Len(MarkClose) - 1 <= Len(fragment)
                    /\ SubSeq(fragment, i, i + Len(MarkClose) - 1) = MarkClose
                 THEN Len(MarkClose) ELSE 0
        markers == {i \in 1..Len(fragment) : MarkerAt(i) > 0}
    IN IF markers = {} THEN fragment
       ELSE LET i == CHOOSE m \in markers : \A n \in markers : m <= n
            IN SubSeq(fragment, 1, i - 1)
                 \o Unmark(SubSeq(fragment, i + MarkerAt(i), Len(fragment)))

\* The fragment, its markers and its ellipses apart, is a window of the text
\* of at most `limit` characters.
WindowWithin(fragment, text, limit) ==
    LET bare == Unmark(fragment)
    IN \E a \in 0..Len(text) : \E n \in {Len(bare), Len(bare) - 3, Len(bare) - 6} :
          /\ n >= 0
          /\ a + n <= Len(text)
          /\ n <= limit
          /\ bare = (IF a > 0 THEN Ellipsis ELSE <<>>)
                       \o SubSeq(text, a + 1, a + n)
                       \o (IF a + n < Len(text) THEN Ellipsis ELSE <<>>)

\* C18: the window of source text in a highlighted fragment is at most 100
\* characters for the title, 200 for the excerpt and 300 for the content,
\* for every keyword of 1 to 200 characters.
C18_WindowWithinFieldLimit ==
    Highlighted =>
        /\ ~IsNone(call.first.title) =>
              WindowWithin(call.first.title, call.given.title, 100)
        /\ ~IsNone(call.first.excerpt) =>
              WindowWithin(call.first.excerpt, call.given.excerpt, 200)
        /\ ~IsNone(call.first.content_preview) =>
              WindowWithin(call.first.content_preview, call.given.content_text, 300)

\* The preview C19 describes.
ClaimedPreview(content_text, keyword) ==
    LET stripped == IF IsNone(content_text) THEN <<>> ELSE StripTags(content_text)
    IN IF Holds(stripped, keyword)
       THEN LET at == FirstAt(stripped, keyword)
                from == IF at - 50 > 0 THEN at - 50 ELSE 0
                to == IF at + Len(keyword) + 50 < Len(stripped)
                      THEN at + Len(keyword) + 50 ELSE Len(stripped)
            IN (IF from > 0 THEN Ellipsis ELSE <<>>)
                 \o SubSeq(stripped, from + 1, to)
                 \o (IF to < Len(stripped) THEN Ellipsis ELSE <<>>)
       ELSE IF Len(stripped) > 200
            THEN SubSeq(stripped, 1, 200) \o Ellipsis
            ELSE stripped

\* C19: the preview is made of content_text with its tags removed: the text
\* from 50 characters before the first occurrence of the keyword (letter
\* case apart) to 50 after its end, clipped to the text, '...' on each
\* clipped side; or, the keyword not in it, its first 200 characters, with
\* '...' after them exactly when it is longer.
C19_PreviewIsWindowOrStart ==
    call.fn = "preview" =>
        call.preview = ClaimedPreview(call.given.content_text, call.keyword)

\* A preview of a text with tags, clipped on both sides of the keyword.
C19_Witness ==
    /\ call.fn = "preview"
    /\ ~IsNone(call.given.content_text)
    /\ StripTags(call.given.content_text) # call.given.content_text
    /\ Len(call.preview) = 50 + Len(call.keyword) + 50 + 6
    /\ SubSeq(call.preview, 1, 3) = Ellipsis
    /\ SubSeq(call.preview, Len(call.preview) - 2, Len(call.preview)) = Ellipsis

UniqueSlugs ==
    \A i, j \in Ids :
        (i # j /\ Truthy(documents[i].slug)) => documents[i].slug # documents[j].slug

\* C15: after any interleaving of upload, create, plugin and update
\* requests no two rows, soft-deleted rows included, have the same non-empty
\* slug; and a request whose commit would give a row the slug of another
\* row ends in an error and adds or changes no document.
C15_SlugsStayUnique ==
    [][/\ UniqueSlugs'
       /\ \A w \in Workers :
             (inflight[w] # NoFlight /\ inflight'[w] = NoFlight) =>
                LET flight == inflight[w]
                    others == Ids \ {flight.id}
                    duplicate == /\ Truthy(flight.slug)
                                 /\ \E i \in others : documents[i].slug = flight.slug
                IN /\ duplicate => (reply'.status_code = 500 /\ documents' = documents)
                   /\ reply'.status_code >= 400 => documents' = documents]_vars

\* Two uploads passed the slug loop with the same title; one of them ended in
\* an error, the slug being that of a soft-deleted row.
C15_Witness ==
    /\ reply.route = "upload_document"
    /\ reply.status_code = 500
    /\ \E i \in Ids : documents[i].deleted_at # NoTime

\* C14: delete_document sets deleted_at of a row that is not deleted and
\* keeps the row and its other fields; a request of a route that takes the
\* id of a deleted row is answered 'not found' and changes nothing in the
\* store; a deleted row never changes again, so its deleted_at is never
\* reset; and no row is ever removed.
C14_SoftDeleteIsFinal ==
    [][/\ Len(documents') >= Len(documents)
       /\ \A id \in Ids :
             /\ documents[id].deleted_at # NoTime => documents'[id] = documents[id]
             /\ (documents[id].deleted_at = NoTime /\ documents'[id].deleted_at # NoTime) =>
                   /\ documents'[id] =
                         [documents[id] EXCEPT !.deleted_at = documents'[id].deleted_at,
                                               !.updated_at = documents'[id].updated_at]
                   /\ reply' = Reply("delete_document", id, 200)
       /\ (reply' # reply /\ reply'.route \in IdRoutes /\ reply'.id \in Ids
             /\ documents[reply'.id].deleted_at # NoTime) =>
             /\ reply'.status_code = 404
             /\ UNCHANGED <<documents, users, categories>>]_vars

\* A publish request on a row that was published and pinned before it was
\* deleted is answered 'not found'; the row keeps its title, slug and status.
C14_Witness ==
    /\ reply.route = "publish_document"
    /\ reply.status_code = 404
    /\ reply.id \in Ids
    /\ documents[reply.id].deleted_at # NoTime
    /\ documents[reply.id].status = 1
    /\ documents[reply.id].is_pinned
    /\ Truthy(documents[reply.id].slug)

\* C16: a step of a search request, answered or failed, in either mode,
\* leaves the documents, the users and the categories as they are.
C16_SearchOnlyReads ==
    [][pc' # pc => UNCHANGED <<documents, users, categories>>]_vars

\* A search has failed on a store that holds a document, a user and a
\* category.
C16_Witness ==
    /\ pc = "done"
    /\ response.kind = "error"
    /\ documents # <<>>
    /\ users # <<>>
    /\ categories # <<>>

Admins == {u \in DOMAIN users : users[u].is_admin}

\* C20: a registered user is an administrator exactly when the users table
\* held no row when the request came, a default user of a document route
\* counting as a row: so the administrator, if there is one, is the first
\* row of the table, and at most one user is an administrator after any
\* interleaving of register requests.
C20_OneAdminByRegistration ==
    /\ Cardinality(Admins) <= 1
    /\ \A u \in DOMAIN users :
          users[u].is_admin <=> (u = 1 /\ users[u].username \in Usernames)

\* C23: a publish request on a document that is not deleted leaves it
\* published, whatever its status was, and changes nothing else but its
\* updated_at; on a document already published it changes nothing in the
\* store, updated_at included.
C23_PublishIsIdempotent ==
    [][(reply'.route = "publish_document" /\ reply'.status_code = 200 /\ reply' # reply) =>
          LET id == reply'.id
          IN /\ id \in Ids
             /\ documents[id].deleted_at = NoTime
             /\ documents'[id].status = 1
             /\ UNCHANGED <<users, categories>>
             /\ IF documents[id].status = 1
                THEN documents' = documents
                ELSE documents' = [documents EXCEPT
                                     ![id].status = 1,
                                     ![id].updated_at = documents'[id].updated_at]]_vars

\* A publish request has found an archived-then-published document already
\* published, at a time later than the document's last write.
C23_Witness ==
    /\ reply.route = "publish_document"
    /\ reply.status_code = 200
    /\ reply.message = "already published"
    /\ documents[reply.id].status = 1
    /\ documents[reply.id].updated_at < clock

\* C24: a pin request on a document that is not deleted flips its is_pinned
\* and changes nothing else of it but updated_at, and no other document; the
\* second of two pin requests in a row on one document brings is_pinned back
\* to what it was before the first.
C24_ToggleFlipsAndRestores ==
    [][(reply'.route = "toggle_pin_document" /\ reply'.status_code = 200
          /\ documents' # documents) =>
          LET id == reply'.id
          IN /\ id \in Ids
             /\ documents[id].deleted_at = NoTime
             /\ documents' = [documents EXCEPT
                                ![id].is_pinned = ~documents[id].is_pinned,
                                ![id].updated_at = documents'[id].updated_at]
             /\ UNCHANGED <<users, categories>>
             /\ (reply.route = "toggle_pin_document" /\ reply.status_code = 200
                   /\ reply.id = id) =>
                   documents'[id].is_pinned = (reply.message = "unpinned")]_vars

\* A pin request has unpinned a published document while another document
\* is there.
C24_Witness ==
    /\ reply.route = "toggle_pin_document"
    /\ reply.status_code = 200
    /\ reply.message = "unpinned"
    /\ ~documents[reply.id].is_pinned
    /\ documents[reply.id].status = 1
    /\ Len(documents) = MaxDocs

\* C22: every item of an answered basic-mode search with highlighting asked
\* for has a highlight of its title, of its excerpt or of its content.
C22_BasicItemHasAHighlight ==
    (BasicAnswered /\ request.highlight) =>
        \A item \in Items :
           /\ item.highlights.given
           /\ \/ ~IsNone(item.highlights.title)
              \/ ~IsNone(item.highlights.excerpt)
              \/ ~IsNone(item.highlights.content_preview)

\* C21: when a walk through the pages 1..pages of a basic-mode search has
\* ended, on a store that was not written meanwhile, the items of its pages
\* are the matching documents, each one once.
C21_WalkReturnsEachMatchOnce ==
    walk.stage = "done" =>
        /\ {walk.ids[i] : i \in DOMAIN walk.ids} = Selected(walk.keyword, "basic")
        /\ \A i, j \in DOMAIN walk.ids : i # j => walk.ids[i] # walk.ids[j]

\* C25: once a user is an administrator, some user is an administrator
\* after every step of the delete_user and toggle_admin requests that
\* administrators send, however the requests interleave.
C25_AnAdminRemains ==
    [][Admins # {} => Admins' # {}]_vars

====
